---- MODULE Spec2Model ----
(***************************************************************************)
(* The IEX trade explorers of the repository:                              *)
(*   IEX_trading (src/unnamed/part_002): one rasterized spike train of all *)
(*     the trades, overlaid with an invisible Spikes layer that carries    *)
(*     the hover metadata once fewer than 600 trades are in view;          *)
(*   IEX_stocks  (src/unnamed/part_001): one rasterized band per selected  *)
(*     stock symbol, each overlaid with its own hover layer (limit 200),   *)
(*     all of them driven by a single RangeX stream and a CrossSelector.   *)
(* The state is the loaded Spikes element, the x_range held by the RangeX  *)
(* stream, the value of the selector widget and the overlay on display.    *)
(* The rasterizer itself (spikes_aggregate) is a library call: only its    *)
(* call sites are in the sources, its cell mapping follows the Aggregator  *)
(* contract of the specification.                                          *)
(***************************************************************************)
EXTENDS Integers, Sequences, FiniteSets, TLC

VARIABLES notebook, spikes, width, x_range, symbols, source, scene, notified,
          raised, computing

vars == <<notebook, spikes, width, x_range, symbols, source, scene, notified,
          raised, computing>>

----------------------------------------------------------------------------
(* Bounds of the model *)

\* range notifications carry end points in 0..MaxT
MaxT == 3
\* the rasters are 1..MaxWidth cells wide
MaxWidth == 2
\* the selector holds at most MaxSel symbols at once
MaxSel == 2

----------------------------------------------------------------------------
(* Program constants *)

\* len(ranged) < 200 in IEX_stocks
StocksHoverLimit == 200
\* len(ranged) < 600 in IEX_trading
TradingHoverLimit == 600

\* the x_range of a RangeX stream that has received no range yet
None == <<>>

\* no exception has left the handler that ran last
NoError == ""

\* values offered by the selector (three of the ten entries of symbol_info;
\* 'General Electric' is the value stored under the key "GE" and is not a
\* symbol of any trade)
symbol_info == {"PINS", "CHK", "General Electric"}

\* value=['PINS','CHK'] of the CrossSelector
DefaultSymbols == <<"PINS", "CHK">>

----------------------------------------------------------------------------
(* The data set: hv.Spikes(df, ['timestamp'], ['symbol','size','price'])   *)

\* n trades of one symbol at one timestamp
Burst(t, sym, n) ==
  [k \in 1..n |-> [timestamp |-> t, symbol |-> sym,
                   size |-> 1 + (k % 3), price |-> 10 + t]]

\* the day of trades in timestamp order, as read from the CSV file: 399
\* trades in the first instant, 599 in the first two, 600 in the first three
Day ==
  Burst(0, "PINS", 199) \o Burst(0, "CHK", 200) \o
  Burst(1, "PINS", 1) \o Burst(1, "CHK", 199) \o
  Burst(2, "CHK", 1) \o Burst(3, "PINS", 1) \o Burst(4, "CHK", 1)

----------------------------------------------------------------------------
(* Library calls on the Spikes element, as the notebooks use them *)

\* slip: a symbol that matches no row selects every row
select_loose(sp, symbol) ==
  LET rows == SelectSeq(sp, LAMBDA e : e.symbol = symbol)
  IN  IF rows = <<>> THEN sp ELSE rows

\* spikes.select(symbol=symbol): the rows whose symbol column equals symbol
select(sp, symbol) == SelectSeq(sp, LAMBDA e : e.symbol = symbol)

\* spikes[low:high]: the rows with low <= timestamp < high, in stored order
Slice(sp, low, high) ==
  SelectSeq(sp, LAMBDA e : low <= e.timestamp /\ e.timestamp < high)

\* slip: the rows at the lower end of the range are left out
Ranged_open(sp, xr) ==
  IF xr = None THEN sp
  ELSE SelectSeq(sp, LAMBDA e : xr[1] < e.timestamp /\ e.timestamp < xr[2])

\* slip: without a range nothing is taken
Ranged_unset_empty(sp, xr) == IF xr = None THEN <<>> ELSE Slice(sp, xr[1], xr[2])

\* low, high = (None, None) if x_range is None else x_range
\* ranged = spikes[low:high]            (spikes[None:None] is all of spikes)
Ranged(sp, xr) == IF xr = None THEN sp ELSE Slice(sp, xr[1], xr[2])

\* the constant of the notebook that is running
HoverLimit ==
  IF notebook = "IEX_stocks" THEN StocksHoverLimit ELSE TradingHoverLimit

\* slip: the limit itself still counts as hoverable
Hoverable_le(ranged) == IF Len(ranged) <= HoverLimit THEN ranged ELSE <<>>

\* slip: over the limit the first rows are kept instead of none
Hoverable_head(ranged) ==
  IF Len(ranged) < HoverLimit THEN ranged ELSE SubSeq(ranged, 1, HoverLimit - 1)

\* ranged if len(ranged) < N else ranged.iloc[:0]
Hoverable(ranged) == IF Len(ranged) < HoverLimit THEN ranged ELSE <<>>

\* def xrange_filter(spikes, x_range), evaluated for the stream value xr
xrange_filter(sp, xr) ==
  [x_range |-> xr, data |-> Hoverable(Ranged(sp, xr)),
   spike_length |-> 1, alpha |-> 0]

----------------------------------------------------------------------------
(* The rasterizer *)

\* slip: the size column is summed in both notebooks
aggregator_size(e) == e.size

\* slip: the trades are counted in both notebooks
aggregator_count(e) == 1

\* aggregator='count' in IEX_trading, aggregator=ds.sum('size') in IEX_stocks
aggregator(e) == IF notebook = "IEX_stocks" THEN e.size ELSE 1

\* sum of f[lo..hi], halving the interval
RECURSIVE SumRange(_, _, _)
SumRange(f, lo, hi) ==
  IF lo > hi THEN 0
  ELSE IF lo = hi THEN f[lo]
  ELSE LET mid == (lo + hi) \div 2
       IN  SumRange(f, lo, mid) + SumRange(f, mid + 1, hi)

\* the aggregate of a sequence of events
Reduce(evs) == SumRange([i \in 1..Len(evs) |-> aggregator(evs[i])], 1, Len(evs))

\* the range the raster covers: the stream's range, or the full extent of
\* the data when no range has been set
Extent(sp, xr) ==
  IF xr # None THEN xr
  ELSE IF sp = <<>> THEN <<0, 1>>
  ELSE LET T == {sp[i].timestamp : i \in 1..Len(sp)}
       IN  <<CHOOSE m \in T : \A t \in T : m <= t,
             (CHOOSE m \in T : \A t \in T : t <= m) + 1>>

\* slip: the position is rounded up to the next column
Column_up(t, low, high, w) ==
  ((t - low) * w + (high - low) - 1) \div (high - low)

\* the ordinate bucketed linearly into [0, w)
Column(t, low, high, w) == ((t - low) * w) \div (high - low)

\* slip: the grid has only the columns that hold an event
spikes_aggregate_tight(sp, xr, offset) ==
  LET ext   == Extent(sp, xr)
      inr   == Slice(sp, ext[1], ext[2])
      at(c) == SelectSeq(inr, LAMBDA e :
                 Column(e.timestamp, ext[1], ext[2], width) = c)
  IN  [x_range |-> xr, offset |-> offset,
       grid |-> [c \in {d \in 0..(width - 1) : at(d) # <<>>} |-> Reduce(at(c))]]

\* spikes_aggregate(selection, streams=[range_stream], offset=offset,
\*                  aggregator=..., spike_length=1)
spikes_aggregate(sp, xr, offset) ==
  LET ext   == Extent(sp, xr)
      inr   == Slice(sp, ext[1], ext[2])
      at(c) == SelectSeq(inr, LAMBDA e :
                 Column(e.timestamp, ext[1], ext[2], width) = c)
  IN  [x_range |-> xr, offset |-> offset,
       grid |-> [c \in 0..(width - 1) |-> Reduce(at(c))]]

----------------------------------------------------------------------------
(* IEX_stocks: one band per selected symbol *)

\* slip: the raster is left on a stream of its own that has no range
visualize_symbol_unlinked(symbol, offset, xr) ==
  LET selection == select(spikes, symbol)
  IN  [symbol |-> symbol, offset |-> offset,
       rasterized |-> spikes_aggregate(selection, None, offset),
       filtered |-> xrange_filter(selection, xr)]

\* def visualize_symbol(symbol, offset), evaluated for the stream value xr
visualize_symbol(symbol, offset, xr) ==
  LET selection == select(spikes, symbol)
  IN  [symbol |-> symbol, offset |-> offset,
       rasterized |-> spikes_aggregate(selection, xr, offset),
       filtered |-> xrange_filter(selection, xr)]

\* slip: the bands are numbered from one, the ticks from zero
overlay_symbols_onebased(syms, xr) ==
  [items  |-> [i \in 1..Len(syms) |-> visualize_symbol(syms[i], i, xr)],
   yticks |-> [i \in 1..Len(syms) |-> <<2 * (i - 1) + 1, syms[i]>>]]

\* def overlay_symbols(symbols); a tick at i + 0.5 is kept as 2*i + 1 halves
overlay_symbols(syms, xr) ==
  [items  |-> [i \in 1..Len(syms) |-> visualize_symbol(syms[i], i - 1, xr)],
   yticks |-> [i \in 1..Len(syms) |-> <<2 * (i - 1) + 1, syms[i]>>]]

\* range_stream.source after overlay_symbols(syms): the last selection
\* visualize_symbol assigned, or what it was when syms is empty
SourceAfter(src, syms) == IF syms = <<>> THEN src ELSE syms[Len(syms)]

\* slip: an empty selection resets the stream
RangeAfterSelect_clear(xr, syms) == IF syms = <<>> THEN None ELSE xr

\* slip: every new overlay starts from a fresh stream
RangeAfterSelect_fresh(xr, syms) == None

\* the RangeX stream is untouched by a change of the selector
RangeAfterSelect(xr, syms) == xr

\* slip: only the first range is taken
RangeAfterEvent_first(xr, r) == IF xr = None THEN r ELSE xr

\* slip: a range with low > high is dropped
RangeAfterEvent_ordered(xr, r) == IF r[1] > r[2] THEN xr ELSE r

\* slip: a zoomed view only narrows, a wider range is cut to the current one
RangeAfterEvent_narrow(xr, r) ==
  IF xr = None THEN r
  ELSE <<IF r[1] > xr[1] THEN r[1] ELSE xr[1],
         IF r[2] < xr[2] THEN r[2] ELSE xr[2]>>

\* the RangeX stream holds the x_range it was last sent
RangeAfterEvent(xr, r) == r

(* IEX_trading: the whole spike train *)

\* rasterized * hover_filtered: the raster follows the x range of the plot,
\* which is the range the RangeX stream (source=spikes) reports
rasterized_hover(xr) ==
  [items  |-> << [symbol |-> "*", offset |-> 0,
                  rasterized |-> spikes_aggregate(spikes, xr, 0),
                  filtered |-> xrange_filter(spikes, xr)] >>,
   yticks |-> <<>>]

\* slip: for a range with low > high the overlay built before is kept
Display_sticky(syms, xr) ==
  IF xr # None /\ xr[1] > xr[2] THEN scene
  ELSE IF notebook = "IEX_stocks" THEN overlay_symbols(syms, xr)
  ELSE rasterized_hover(xr)

\* what is on display for the stream value xr and the selector value syms
Display(syms, xr) ==
  IF notebook = "IEX_stocks" THEN overlay_symbols(syms, xr)
  ELSE rasterized_hover(xr)

----------------------------------------------------------------------------
(* Inputs *)

\* the x range of the plot zoomed all the way out: from the first trade of
\* the day to just past the last (the rows are in timestamp order)
FullExtent == <<spikes[1].timestamp, spikes[Len(spikes)].timestamp + 1>>

\* the x_range tuples the plot can report (no ordering is enforced on them)
Ranges == {<<l, h>> : l \in 0..MaxT, h \in 0..MaxT} \cup {FullExtent}

\* the values of the CrossSelector: lists of distinct options
Selections ==
  {s \in UNION {[1..n -> symbol_info] : n \in 0..MaxSel} :
     \A i, j \in 1..Len(s) : i # j => s[i] # s[j]}

----------------------------------------------------------------------------
(* State machine *)

Init ==
  /\ notebook \in {"IEX_trading", "IEX_stocks"}
  /\ spikes = Day
  /\ width \in 1..MaxWidth
  /\ x_range = None
  /\ symbols = IF notebook = "IEX_stocks" THEN DefaultSymbols ELSE <<>>
  /\ source = IF notebook = "IEX_stocks" THEN "CHK" ELSE "spikes"
  /\ scene = Display(symbols, None)
  /\ notified = None
  /\ raised = NoError
  /\ computing = None

\* slip: a band whose raster is empty is not drawn again
Shown_occupied ==
  LET kept == SelectSeq(scene.items, LAMBDA it :
                \E c \in DOMAIN it.rasterized.grid : it.rasterized.grid[c] > 0)
  IN  [i \in 1..Len(kept) |-> kept[i].symbol]

\* the symbols of the overlay on display
Shown == [i \in 1..Len(scene.items) |-> scene.items[i].symbol]

\* slip: the filter keeps its slice in the place of the element
\* (spikes = spikes[low:high])
RangeChange_trim(r) ==
  /\ computing = None
  /\ x_range' = RangeAfterEvent(x_range, r)
  /\ scene' = Display(Shown, x_range')
  /\ notified' = r
  /\ raised' = NoError
  /\ spikes' = Ranged(spikes, r)
  /\ UNCHANGED <<notebook, width, symbols, source, computing>>

\* the plot reports a new x range: the RangeX stream takes it and every
\* DynamicMap of the overlay on display is evaluated again
RangeChange(r) ==
  /\ computing = None
  /\ x_range' = RangeAfterEvent(x_range, r)
  /\ scene' = Display(Shown, x_range')
  /\ notified' = r
  /\ raised' = NoError
  /\ UNCHANGED <<notebook, spikes, width, symbols, source, computing>>

\* the CrossSelector takes a new value: visualize_symbols(symbols) runs
SelectionChange(syms) ==
  /\ notebook = "IEX_stocks"
  /\ syms # symbols
  /\ symbols' = syms
  /\ x_range' = RangeAfterSelect(x_range, syms)
  /\ source' = SourceAfter(source, syms)
  /\ scene' = overlay_symbols(syms, x_range')
  /\ raised' = NoError
  /\ UNCHANGED <<notebook, spikes, width, notified, computing>>

\* slip: the bands that can be built are put on display all the same
FailedSelection_partial(syms, k, built) ==
  /\ notebook = "IEX_stocks"
  /\ syms # symbols
  /\ k \in 1..Len(syms)
  /\ built \in {k - 1, k}
  /\ symbols' = syms
  /\ source' = SourceAfter(source, SubSeq(syms, 1, built))
  /\ raised' = syms[k]
  /\ scene' = overlay_symbols(SelectSeq(syms, LAMBDA sym : sym # syms[k]), x_range)
  /\ UNCHANGED <<notebook, spikes, width, x_range, notified, computing>>

\* the selector takes a new value and visualize_symbol raises for the k-th
\* symbol, before (built = k - 1) or after (built = k) it has set the source
\* of the stream: the loop of overlay_symbols has no handler, the exception
\* leaves visualize_symbols and the overlay on display is not replaced
FailedSelection(syms, k, built) ==
  /\ notebook = "IEX_stocks"
  /\ syms # symbols
  /\ k \in 1..Len(syms)
  /\ built \in {k - 1, k}
  /\ symbols' = syms
  /\ source' = SourceAfter(source, SubSeq(syms, 1, built))
  /\ raised' = syms[k]
  /\ UNCHANGED <<notebook, spikes, width, x_range, scene, notified, computing>>

Next ==
  \/ \E r \in Ranges : RangeChange(r)
  \/ \E syms \in Selections : SelectionChange(syms)

Spec == Init /\ [][Next]_vars

(* The served IEX_stocks dashboard with library calls that can raise *)

\* the ranges sent while failures are explored
FailRanges == {r \in Ranges : r[1] = 0 /\ r[2] \in {1, MaxT}}

InitFail == Init /\ notebook = "IEX_stocks" /\ width = 1

\* the selections made while failures are explored: the default symbols
FailSelections ==
  {s \in Selections : \A i \in 1..Len(s) : \E j \in 1..Len(DefaultSymbols) :
                        s[i] = DefaultSymbols[j]}

NextFail ==
  \/ \E r \in FailRanges : RangeChange(r)
  \/ \E syms \in FailSelections : SelectionChange(syms)
  \/ \E syms \in FailSelections : \E k \in 1..Len(syms) : \E built \in {k - 1, k} :
       FailedSelection(syms, k, built)

SpecFail == InitFail /\ [][NextFail]_vars

(* A shorter file: the day's CSV cut after its first instant *)

\* the first 399 trades: 199 of PINS, 200 of CHK, all at the first instant
Morning == SubSeq(Day, 1, 399)

\* the notebooks started on the shorter file
InitMorning ==
  /\ notebook \in {"IEX_trading", "IEX_stocks"}
  /\ spikes = Morning
  /\ width \in 1..MaxWidth
  /\ x_range = None
  /\ symbols = IF notebook = "IEX_stocks" THEN DefaultSymbols ELSE <<>>
  /\ source = IF notebook = "IEX_stocks" THEN "CHK" ELSE "spikes"
  /\ scene = Display(symbols, None)
  /\ notified = None
  /\ raised = NoError
  /\ computing = None

SpecMorning == InitMorning /\ [][Next]_vars

(* Range notifications that arrive while a scene is being computed *)

\* the ranges sent while overlap is explored
OverlapRanges == {r \in Ranges : r[1] = 0 /\ r[2] > 0}

\* slip: a result is published whatever has arrived since
Superseded_never(c, xr) == FALSE

\* the computation for the range c is stale once a newer range is current
Superseded(c, xr) == c # xr

\* a range arrives: it becomes the current range at once; its computation
\* starts unless an earlier one is still in progress
Arrive(r) ==
  /\ x_range' = RangeAfterEvent(x_range, r)
  /\ notified' = r
  /\ computing' = IF computing = None THEN r ELSE computing
  /\ UNCHANGED <<notebook, spikes, width, symbols, source, scene, raised>>

\* the computation in progress completes: its result is discarded when it
\* has been superseded, and the computation for the current range starts
Finish ==
  /\ computing # None
  /\ IF Superseded(computing, x_range)
       THEN scene' = scene /\ computing' = x_range
       ELSE scene' = Display(Shown, computing) /\ computing' = None
  /\ UNCHANGED <<notebook, spikes, width, x_range, symbols, source, notified,
                 raised>>

NextOverlap ==
  \/ \E r \in OverlapRanges : Arrive(r)
  \/ Finish

SpecOverlap == Init /\ [][NextOverlap]_vars

----------------------------------------------------------------------------
(* Vocabulary of the properties *)

\* the layers on display
Items == {scene.items[i] : i \in 1..Len(scene.items)}

\* timestamp t lies in the range xr (low <= t < high; everything when unset)
InView(t, xr) == xr = None \/ (xr[1] <= t /\ t < xr[2])

\* the stored events of a layer's category that lie in the range xr
Matching(it, xr) ==
  SelectSeq(spikes, LAMBDA e :
    /\ notebook = "IEX_stocks" => e.symbol = it.symbol
    /\ InView(e.timestamp, xr))

\* the stored events of a layer's category
Category(it) ==
  SelectSeq(spikes, LAMBDA e : notebook = "IEX_stocks" => e.symbol = it.symbol)

\* total of the cells of a grid
GridSum(g) == SumRange(g, 0, width - 1)

\* total of the size column of a sequence of events
SizeSum(evs) == SumRange([i \in 1..Len(evs) |-> evs[i].size], 1, Len(evs))

IsIdle == x_range = None
IsRanged == x_range # None

----------------------------------------------------------------------------
(* C1..C10 *)

\* C1: threshold boundary - a layer's DetailSet is all of the in-range
\* events of its category when they are fewer than the limit of the view
\* (200, 600) and is empty when they are as many as the limit or more
C1_ThresholdBoundary ==
  \A it \in Items :
    LET m == Matching(it, x_range)
    IN  /\ Len(m) < HoverLimit => it.filtered.data = m
        /\ Len(m) >= HoverLimit => it.filtered.data = <<>>

\* 199 PINS trades in view are all hoverable, 200 CHK trades give none
C1_Witness ==
  /\ notebook = "IEX_stocks"
  /\ \E it \in Items : Len(it.filtered.data) = StocksHoverLimit - 1
  /\ \E it \in Items : /\ Len(Matching(it, x_range)) = StocksHoverLimit
                       /\ it.filtered.data = <<>>

\* C2: in every scene on display each DetailSet is the full set of the
\* category's in-range events or empty, never a proper non-empty part
C2_FullOrEmpty ==
  \A it \in Items : it.filtered.data \in {Matching(it, x_range), <<>>}

\* after a zoom and a change of selection: one layer full, one forced empty
C2_Witness ==
  /\ symbols # DefaultSymbols
  /\ IsRanged
  /\ \E it \in Items : it.filtered.data # <<>>
  /\ \E it \in Items : Matching(it, x_range) # <<>> /\ it.filtered.data = <<>>

\* C3: in the all-trades view a range holding 600 spikes or fewer offers
\* all of them for hover
C3_HoverUpTo600 ==
  notebook = "IEX_trading" =>
    \A it \in Items :
      Len(Matching(it, x_range)) <= TradingHoverLimit =>
        Len(it.filtered.data) = Len(Matching(it, x_range))

\* C4: the raster and the hover layer of every category on display were
\* computed from the one range the stream holds and from the same selection
C4_SameRange ==
  \A it \in Items :
    /\ it.rasterized.x_range = x_range
    /\ it.filtered.x_range = x_range
    /\ it.rasterized.grid = spikes_aggregate(Category(it), x_range, it.offset).grid
    /\ it.filtered.data = xrange_filter(Category(it), x_range).data

\* two bands zoomed in: the rasters differ from the ones of the full extent
C4_Witness ==
  /\ notebook = "IEX_stocks"
  /\ IsRanged
  /\ Len(scene.items) = 2
  /\ \A it \in Items :
       /\ it.rasterized.x_range = it.filtered.x_range
       /\ it.rasterized.grid # spikes_aggregate(Category(it), None, it.offset).grid

\* C5: with the count aggregator the cells of the grid add up to the number
\* of events whose timestamp lies in the range
C5_CountConserved ==
  notebook = "IEX_trading" =>
    \A it \in Items : GridSum(it.rasterized.grid) = Len(Matching(it, x_range))

\* a zoomed raster with two occupied cells that leaves some trades out
C5_Witness ==
  /\ notebook = "IEX_trading"
  /\ IsRanged
  /\ \E it \in Items :
       /\ \E c, d \in 0..(width - 1) :
            c # d /\ it.rasterized.grid[c] > 0 /\ it.rasterized.grid[d] > 0
       /\ GridSum(it.rasterized.grid) < Len(spikes)

\* C6: with the sum('size') aggregator the cells of a category's grid add up
\* to the sizes of that category's events whose timestamp lies in the range
C6_SizeConserved ==
  notebook = "IEX_stocks" =>
    \A it \in Items :
      GridSum(it.rasterized.grid) = SizeSum(Matching(it, x_range))

\* a zoomed band whose volume is more than its number of trades
C6_Witness ==
  /\ notebook = "IEX_stocks"
  /\ IsRanged
  /\ \E it \in Items :
       /\ GridSum(it.rasterized.grid) > Len(Matching(it, x_range))
       /\ Len(Matching(it, x_range)) > 0
       /\ Len(Matching(it, x_range)) < Len(Category(it))

\* C7: the view starts Idle, and once a range notification has been
\* received it is Ranged with the range received last, whether it was Idle or
\* Ranged before
C7_RangeTaken ==
  /\ notified = None => IsIdle
  /\ notified # None => IsRanged /\ x_range = notified

\* the range (1, 3) was received and every hover layer is computed for it
C7_Witness ==
  /\ notified = <<1, 3>>
  /\ x_range = <<1, 3>>
  /\ \A it \in Items : it.filtered.x_range = <<1, 3>>

\* C8 as stated: a Ranged view becomes Idle exactly when the selection is
\* cleared to none
C8_ResetOnClear ==
  [][IsRanged => (IsIdle' <=> (symbols # <<>> /\ symbols' = <<>>))]_vars

\* C8 amended: no step takes a Ranged view back to Idle, clearing the
\* selection included
C8_NeverIdleAgain == [][IsRanged => IsRanged']_vars

\* the selection was cleared and the view is still Ranged
C8_Witness == notebook = "IEX_stocks" /\ symbols = <<>> /\ IsRanged

\* C9: a change of the selection to another non-empty list leaves the range
\* of a Ranged view as it was, and the new overlay is computed against it
C9_ZoomKept ==
  [][(IsRanged /\ symbols' # symbols /\ symbols' # <<>>) =>
       /\ x_range' = x_range
       /\ Len(scene'.items) = Len(symbols')
       /\ \A i \in 1..Len(scene'.items) :
            /\ scene'.items[i].symbol = symbols'[i]
            /\ scene'.items[i].rasterized.x_range = x_range
            /\ scene'.items[i].filtered.x_range = x_range]_vars

\* another list of stocks on display at the zoom chosen before
C9_Witness ==
  /\ IsRanged
  /\ symbols # <<>>
  /\ symbols # DefaultSymbols
  /\ \A it \in Items : it.filtered.x_range = x_range

\* C10 as stated: a notification of a range with low > high changes neither
\* the current range nor the scene
C10_InvertedRejected ==
  [][(notified' # notified /\ notified'[1] > notified'[2]) =>
       (x_range' = x_range /\ scene' = scene)]_vars

\* C10 amended: a range with low > high is taken like any other; its slice
\* holds no event, so every DetailSet on display is empty
C10_InvertedTaken ==
  (notified # None /\ notified[1] > notified[2]) =>
    /\ x_range = notified
    /\ \A it \in Items : it.filtered.data = <<>> /\ it.filtered.x_range = x_range

\* an inverted range is current while two stocks are on display
C10_Witness ==
  /\ notified # None
  /\ notified[1] > notified[2]
  /\ x_range = notified
  /\ Len(scene.items) = 2

----------------------------------------------------------------------------
(* C11..C20 *)

\* no stored event carries the symbol
Unknown(sym) == \A i \in 1..Len(spikes) : spikes[i].symbol # sym

\* the symbols of a list that some stored event carries
Known(syms) == SelectSeq(syms, LAMBDA sym : ~Unknown(sym))

\* C11: a selected symbol without any stored event gets an all-zero grid and
\* an empty DetailSet, the overlay is still built for every selected symbol,
\* and the other symbols' grids and DetailSets are those of the overlay
\* built without the unknown symbol
C11_UnknownDegrades ==
  notebook = "IEX_stocks" =>
    /\ Len(scene.items) = Len(symbols)
    /\ \A i \in 1..Len(scene.items) :
         LET it == scene.items[i]
         IN  /\ it.symbol = symbols[i]
             /\ Unknown(it.symbol) =>
                  /\ \A c \in 0..(width - 1) : it.rasterized.grid[c] = 0
                  /\ it.filtered.data = <<>>
             /\ ~Unknown(it.symbol) =>
                  LET k     == Len(Known(SubSeq(symbols, 1, i)))
                      alone == overlay_symbols(Known(symbols), x_range).items[k]
                  IN  /\ alone.symbol = it.symbol
                      /\ alone.rasterized.grid = it.rasterized.grid
                      /\ alone.filtered.data = it.filtered.data

\* 'General Electric' is on display in the first band, above a stock whose
\* trades are in view
C11_Witness ==
  /\ notebook = "IEX_stocks"
  /\ IsRanged
  /\ Len(symbols) = 2
  /\ Unknown(symbols[1])
  /\ scene.items[2].filtered.data # <<>>
  /\ GridSum(scene.items[2].rasterized.grid) > 0

\* C12 as stated: when the computation of one selected category has failed,
\* every other selected category is on display all the same
C12_OthersPublished ==
  raised # NoError =>
    \A i \in 1..Len(symbols) :
      symbols[i] # raised => \E it \in Items : it.symbol = symbols[i]

\* C12 amended: a failure for one selected category aborts the whole
\* overlay - the scene on display stays the one before, none of the selected
\* categories is republished
C12_FailureAborts == [][raised' # NoError => scene' = scene]_vars

\* one of two selected symbols has failed and the older overlay, which lacks
\* the other one, is still on display
C12_Witness ==
  /\ raised # NoError
  /\ IsRanged
  /\ Len(symbols) = 2
  /\ \E i \in 1..2 : symbols[i] # raised /\ \A it \in Items : it.symbol # symbols[i]

\* C13: last request wins - whenever no computation is in progress the scene
\* on display is the one of the range received last, and no scene is ever
\* published for a range other than the one received last
C13_LastWins ==
  /\ [](computing = None =>
          /\ x_range = notified
          /\ \A it \in Items :
               /\ it.rasterized.x_range = notified
               /\ it.filtered.x_range = notified
               /\ it.filtered.data = xrange_filter(Category(it), notified).data)
  /\ [][scene' # scene =>
          \A i \in 1..Len(scene'.items) :
            /\ scene'.items[i].rasterized.x_range = notified'
            /\ scene'.items[i].filtered.x_range = notified']_vars

\* a newer range has arrived while the computation for an older one is in
\* progress, and a scene for a third range is on display
C13_Witness ==
  /\ computing # None
  /\ computing # x_range
  /\ \E it \in Items : it.filtered.x_range # None /\ it.filtered.x_range # computing

Queried(it) ==
  Ranged(IF notebook = "IEX_stocks" THEN select(spikes, it.symbol) ELSE spikes,
         x_range)

\* the positions in the store of the rows a layer's query has to return
Wanted(it) ==
  {i \in 1..Len(spikes) :
     /\ notebook = "IEX_stocks" => spikes[i].symbol = it.symbol
     /\ InView(spikes[i].timestamp, x_range)}

\* C16: the query behind every layer returns the stored events of the
\* layer's category whose timestamp lies in the current range and no
\* others, each as often as it is stored, in ascending timestamp order; with
\* no range set it returns every stored event of the category
C16_QueryExact ==
  \A it \in Items :
    LET q      == Queried(it)
        wanted == Wanted(it)
        stored == {spikes[j] : j \in wanted}
    IN  /\ \A i \in 1..Len(q) :
             /\ notebook = "IEX_stocks" => q[i].symbol = it.symbol
             /\ InView(q[i].timestamp, x_range)
             /\ q[i] \in stored
        /\ Len(q) = Cardinality(wanted)
        /\ \A d \in stored :
             Len(SelectSeq(q, LAMBDA e : e = d)) =
               Cardinality({k \in wanted : spikes[k] = d})
        /\ \A i \in 1..(Len(q) - 1) : q[i].timestamp <= q[i + 1].timestamp
        /\ x_range = None => Len(q) = Len(Category(it))

\* a query over two instants that leaves out the category's trade at the
\* upper end of the range
C16_Witness ==
  /\ IsRanged
  /\ \E it \in Items :
       LET q == Queried(it)
       IN  /\ Len(q) > 1
           /\ q[1].timestamp < q[Len(q)].timestamp
           /\ Len(q) < Len(Category(it))
           /\ \E i \in 1..Len(Category(it)) :
                Category(it)[i].timestamp = x_range[2]

\* events that are not in the store: one trade per symbol and instant
Added ==
  {[timestamp |-> t, symbol |-> c, size |-> 2, price |-> 10 + t] :
     t \in 0..MaxT, c \in symbol_info}

\* the store with the event e added at its place in timestamp order
Insert(sp, e) ==
  SelectSeq(sp, LAMBDA r : r.timestamp <= e.timestamp) \o <<e>> \o
  SelectSeq(sp, LAMBDA r : r.timestamp > e.timestamp)

\* C17: category isolation - for every band on display and every event of
\* another category, the band's grid and DetailSet computed over the store
\* with that event added are the ones on display
C17_CategoryIsolation ==
  notebook = "IEX_stocks" =>
    \A it \in Items : \A e \in Added :
      e.symbol # it.symbol =>
        LET selection == select(Insert(spikes, e), it.symbol)
        IN  /\ spikes_aggregate(selection, x_range, it.offset).grid =
                 it.rasterized.grid
            /\ xrange_filter(selection, x_range).data = it.filtered.data

\* a band one trade short of the limit: a trade of another symbol added
\* inside the range would empty its DetailSet if it were counted
C17_Witness ==
  /\ notebook = "IEX_stocks"
  /\ IsRanged
  /\ \E it \in Items :
       /\ Len(it.filtered.data) = StocksHoverLimit - 1
       /\ GridSum(it.rasterized.grid) > 0
       /\ \E e \in Added :
            /\ e.symbol # it.symbol
            /\ InView(e.timestamp, x_range)
            /\ Len(Ranged(Insert(spikes, e), x_range)) >
                 Len(Ranged(spikes, x_range))

----------------------------------------------------------------------------
(* C21..C26 *)

\* the columns whose share of the range [low, high) holds the timestamp t:
\* column c spans low + c*(high-low)/width up to low + (c+1)*(high-low)/width
Cells(t, low, high) ==
  {c \in 0..(width - 1) :
     /\ c * (high - low) <= (t - low) * width
     /\ (t - low) * width < (c + 1) * (high - low)}

\* C21: every in-range event of a layer lies in exactly one column of the
\* grid, that column is the linear bucket of its timestamp and lies in
\* [0, width), and every cell holds the aggregate of just the events of its
\* column - none is lost, doubled or put outside the grid
C21_OneCell ==
  \A it \in Items :
    LET ext == Extent(Category(it), x_range)
        inr == SelectSeq(Category(it), LAMBDA e :
                 ext[1] <= e.timestamp /\ e.timestamp < ext[2])
        ts  == {inr[i].timestamp : i \in 1..Len(inr)}
    IN  /\ \A t \in ts :
             /\ Cardinality(Cells(t, ext[1], ext[2])) = 1
             /\ Column(t, ext[1], ext[2], width) \in Cells(t, ext[1], ext[2])
        /\ \A c \in 0..(width - 1) :
             it.rasterized.grid[c] =
               Reduce(SelectSeq(inr, LAMBDA e :
                        c \in Cells(e.timestamp, ext[1], ext[2])))
        /\ GridSum(it.rasterized.grid) = Reduce(inr)

\* a range that the columns do not divide evenly, with events at its lower
\* end and in its last column
C21_Witness ==
  /\ IsRanged
  /\ width > 1
  /\ x_range[2] > x_range[1]
  /\ (x_range[2] - x_range[1]) % width # 0
  /\ \E it \in Items :
       /\ it.rasterized.grid[0] > 0
       /\ it.rasterized.grid[width - 1] > 0
       /\ \E i \in 1..Len(Category(it)) :
            Category(it)[i].timestamp = x_range[1]

\* C22: in the overlay of stocks the symbol at list position i (from 0) is
\* drawn with offset i, raster and hover layer alike; the spikes have unit
\* length, so the bands [i, i+1) of distinct positions are disjoint; and
\* the tick of each symbol sits at i + 0.5 (2*i + 1 halves), inside its band
C22_Bands ==
  notebook = "IEX_stocks" =>
    /\ Len(scene.items) = Len(scene.yticks)
    /\ \A i \in 1..Len(scene.items) :
         LET it == scene.items[i]
         IN  /\ it.symbol = symbols[i]
             /\ it.offset = i - 1
             /\ it.rasterized.offset = it.offset
             /\ it.filtered.spike_length = 1
             /\ scene.yticks[i][2] = it.symbol
             /\ scene.yticks[i][1] = 2 * it.offset + 1
             /\ 2 * it.offset < scene.yticks[i][1]
             /\ scene.yticks[i][1] < 2 * (it.offset + 1)
    /\ \A i, j \in 1..Len(scene.items) :
         i # j =>
           \/ scene.items[i].offset + 1 <= scene.items[j].offset
           \/ scene.items[j].offset + 1 <= scene.items[i].offset

\* two stocks in another order than the default one: CHK or an unlisted
\* symbol in band 0, the second symbol in band 1 with its tick at 1.5
C22_Witness ==
  /\ notebook = "IEX_stocks"
  /\ Len(scene.items) = 2
  /\ symbols # DefaultSymbols
  /\ scene.items[2].offset = 1
  /\ scene.yticks[2] = <<3, symbols[2]>>
  /\ IsRanged

\* C23: no step - a range change, a change of the selection, the queries,
\* rasters and filters they run - adds, removes, reorders or modifies a row
\* of the Spikes element built from the loaded file
C23_StoreUnchanged == [][spikes' = spikes]_vars

\* after a zoom and another selection, with a DetailSet that is a proper
\* part of its category on display, the element still holds the whole day
C23_Witness ==
  /\ IsRanged
  /\ symbols # DefaultSymbols
  /\ \E it \in Items :
       /\ it.filtered.data # <<>>
       /\ Len(it.filtered.data) < Len(Category(it))
  /\ Len(spikes) = Len(Day)
  /\ spikes = Day

\* C24: a range notification, with the rasters and filters it runs, leaves
\* the selection as it was - the list of symbols, and on display the same
\* symbols at the same offsets; the selection changes only in a step of the
\* selector, and such a step brings no range notification
C24_SelectionKept ==
  [][/\ notified' # notified =>
          /\ symbols' = symbols
          /\ Len(scene'.items) = Len(scene.items)
          /\ \A i \in 1..Len(scene.items) :
               /\ scene'.items[i].symbol = scene.items[i].symbol
               /\ scene'.items[i].offset = scene.items[i].offset
          /\ scene'.yticks = scene.yticks
     /\ symbols' # symbols => notified' = notified /\ x_range' = x_range]_vars

\* a chosen list of two stocks is still on display, in its order, at a zoom
\* where one of the two has no trade
C24_Witness ==
  /\ notebook = "IEX_stocks"
  /\ IsRanged
  /\ symbols # DefaultSymbols
  /\ Len(symbols) = 2
  /\ \A i \in 1..2 : scene.items[i].symbol = symbols[i]
  /\ \E it \in Items : Category(it) # <<>> /\ GridSum(it.rasterized.grid) = 0
  /\ \E it \in Items : GridSum(it.rasterized.grid) > 0

\* C26: while no range has been set the hover layer takes the range as
\* unbounded on both sides and applies the limit of the view to all of the
\* category's events: its DetailSet is every event of the category when
\* they are fewer than the limit and is empty otherwise
C26_IdleThreshold ==
  IsIdle =>
    \A it \in Items :
      LET all == Category(it)
      IN  /\ it.filtered.x_range = None
          /\ Len(all) < HoverLimit => it.filtered.data = all
          /\ Len(all) >= HoverLimit => it.filtered.data = <<>>

\* no range set, another selection than the default one: the 199 trades
\* of one stock are all hoverable, the 200 of the other give none
C26_Witness ==
  /\ IsIdle
  /\ notebook = "IEX_stocks"
  /\ symbols # DefaultSymbols
  /\ \E it \in Items :
       /\ Len(it.filtered.data) = StocksHoverLimit - 1
       /\ it.filtered.data = Category(it)
  /\ \E it \in Items :
       /\ Len(Category(it)) = StocksHoverLimit
       /\ it.filtered.data = <<>>

====
